---- MODULE Spec2Model ----
(***************************************************************************)
(* Model of structuralcodes/development/corrosion.py:                      *)
(*   calculate_velocity_of_corrosion          (lines 4-179)                *)
(*   calculate_minimum_area_after_corrosion   (lines 181-314)              *)
(*                                                                         *)
(* Python floats are binary floating-point numbers whose operations round  *)
(* to nearest, ties to even.  The model keeps that arithmetic but with a   *)
(* significand of Prec bits instead of 53 (TLC's integers have 32 bits):   *)
(* a float is [m, e] and stands for m * 2^e, with m = 0 /\ e = 0 or        *)
(* 2^(Prec-1) <= |m| < 2^Prec.  The exponent is unbounded, so there is no  *)
(* overflow or underflow.                                                  *)
(***************************************************************************)
EXTENDS Integers, Sequences, FiniteSets, TLC

\* Significand width of the modelled float (53 in CPython).
Prec == 13

----------------------------------------------------------------------------
\* Floating-point arithmetic (the float operators the source uses).

F(m, e) == [m |-> m, e |-> e]

Zero == F(0, 0)

AbsInt(n) == IF n < 0 THEN -n ELSE n

SgnInt(n) == IF n < 0 THEN -1 ELSE 1

RECURSIVE BitLen(_)
BitLen(n) == IF n = 0 THEN 0 ELSE 1 + BitLen(n \div 2)

\* The float nearest to the integer n times 2^e (ties to even).
RoundInt(n, e) ==
    IF n = 0 THEN Zero
    ELSE LET a   == AbsInt(n)
             s   == SgnInt(n)
             len == BitLen(a)
         IN  IF len <= Prec
             THEN F(s * a * 2^(Prec - len), e - (Prec - len))
             ELSE LET sh   == len - Prec
                      q    == a \div 2^sh
                      r    == a % 2^sh
                      half == 2^(sh - 1)
                      q1   == IF r > half \/ (r = half /\ q % 2 = 1)
                              THEN q + 1 ELSE q
                  IN  IF q1 = 2^Prec
                      THEN F(s * 2^(Prec - 1), e + sh + 1)
                      ELSE F(s * q1, e + sh)

\* int -> float conversion (exact for |n| < 2^Prec).
FromInt(n) == RoundInt(n, 0)

Neg(x) == F(-x.m, x.e)

\* x * y
Mul(x, y) == RoundInt(x.m * y.m, x.e + y.e)

\* x / y for y # 0; the remainder is kept as a sticky bit.
Div(x, y) ==
    IF x.m = 0 THEN Zero
    ELSE LET s == SgnInt(x.m) * SgnInt(y.m)
             n == AbsInt(x.m) * 2^(Prec + 2)
             d == AbsInt(y.m)
             q == n \div d
             r == n % d
         IN  RoundInt(s * (2 * q + (IF r = 0 THEN 0 ELSE 1)),
                      x.e - y.e - (Prec + 3))

\* x + y; an operand below 1/16 ulp of the other cannot change the result.
Add(x, y) ==
    IF x.m = 0 THEN y
    ELSE IF y.m = 0 THEN x
    ELSE LET hi == IF x.e >= y.e THEN x ELSE y
             lo == IF x.e >= y.e THEN y ELSE x
             d  == hi.e - lo.e
         IN  IF d > Prec + 3 THEN hi
             ELSE RoundInt(hi.m * 2^d + lo.m, lo.e)

\* x - y
Sub(x, y) == Add(x, Neg(y))

\* x < y and x <= y (a rounded difference keeps its sign).
Lt(x, y) == Sub(x, y).m < 0

Le(x, y) == Sub(x, y).m <= 0

RECURSIVE ISqrtIter(_, _, _)
ISqrtIter(n, r, b) ==
    IF b = 0 THEN r
    ELSE LET c == r + b
         IN  IF c <= n \div c THEN ISqrtIter(n, c, b \div 2)
                              ELSE ISqrtIter(n, r, b \div 2)

\* floor of the square root of n, 0 <= n < 2^(2*Prec+4).
ISqrt(n) == ISqrtIter(n, 0, 2^(Prec + 1))

\* math.sqrt(x) for x >= 0, correctly rounded.
Sqrt(x) ==
    IF x.m = 0 THEN Zero
    ELSE LET k == IF (x.e - (Prec + 3)) % 2 = 0 THEN Prec + 3 ELSE Prec + 4
             n == x.m * 2^k
             s == ISqrt(n)
         IN  RoundInt(2 * s + (IF s * s = n THEN 0 ELSE 1),
                      ((x.e - k) \div 2) - 1)

\* A decimal literal n/d of the source, rounded to the nearest float.
FromRat(n, d) == Div(FromInt(n), FromInt(d))

----------------------------------------------------------------------------
\* Values of the program.

One == FromInt(1)

Two == FromInt(2)

\* math.pi
Pi == F(6434, -11)

\* None, for the string-valued arguments and the design code.
NoneStr == "None"

\* The design codes the registry knows (structuralcodes.codes).
DesignCodes == {"ec2_2004", "mc2010"}

\* structuralcodes.codes._use_design_code: the global code when no code is
\* given, the given code when the registry knows it, None otherwise.
UseDesignCode(design_code, active) ==
    IF design_code = NoneStr THEN active
    ELSE IF design_code \in DesignCodes THEN design_code
    ELSE NoneStr

\* Outcome of a call: a returned value (<<>> is None, <<x>> the float x) or a
\* raised ValueError identified by its message; steps lists the steps the
\* call went through, in order.
Ret(v, steps) ==
    [kind |-> "return", value |-> <<v>>, error |-> "none", steps |-> steps]

RetNone(steps) ==
    [kind |-> "return", value |-> <<>>, error |-> "none", steps |-> steps]

Raise(msg, steps) ==
    [kind |-> "raise", value |-> <<>>, error |-> msg, steps |-> steps]

NoOutcome ==
    [kind |-> "none", value |-> <<>>, error |-> "none", steps |-> <<>>]

\* Messages of the ValueErrors the two functions raise.
ErrDesignCode == "The design code is not set"

ErrCorrosionType == "The variable corrosion_type is not valid"

ErrExposureCarbonation == "exposure_class is not valid: use Sheltered or Unsheltered"

ErrExposureChloride == "exposure_class is not valid: use Wet, Cyclic_dry_wet, Airborn_seawater, Submerged or Tidal_zone"

ErrFractile == "The value of fractile is not valid"

ErrDomainP == "p must be in (0,1)"

ErrPcorr == "The calculated value of Pcorr_rep is less or equal to 0"

ErrTooMany == "Too many input arguments have been given to the function"

ErrMissing == "velocity_of_corrosion or time_of_corrosion is missing"

ErrPitting == "The pitting_factor must be greater than or equal to 1"

ErrArea == "The uncorroded_area must be non-negative"

ErrMassLoss == "mass_loss must be between 0 and 1"

ErrVelocity == "velocity_of_corrosion must be non-negative"

ErrTime == "time_of_corrosion must be non-negative"

ErrNegMassLoss == "The combination of mass_loss and pitting_factor gave a corroded_minimum_area lower than 0"

ErrNegVT == "The combination of velocity_of_corrosion and time_of_corrosion gave a corroded_minimum_area lower than 0"

ErrNegVTPitting == "The combination of velocity_of_corrosion and time_of_corrosion and pitting_factor gave a corroded_minimum_area lower than 0"

\* math.sqrt of a negative number.
ErrMathDomain == "math domain error"

----------------------------------------------------------------------------
\* inverse_normal_cdf (Acklam's algorithm).

\* Coefficients for the approximation.
a == << F(-5081, -7), F(7070, -5), F(-4415, -4),
        F(4427, -5), F(-7850, -8), F(5134, -11) >>

b == << F(-6973, -7), F(5171, -5), F(-4982, -5), F(4275, -6), F(-6800, -9) >>

c == << F(-8163, -20), F(-5282, -14), F(-4917, -11),
        F(-5222, -11), F(4480, -10), F(6017, -11) >>

d == << F(8163, -20), F(5283, -14), F(5008, -11), F(7689, -11) >>

\* Break-points.
plow == FromRat(97, 4000)

phigh == Sub(One, plow)

\* math.log, tabulated on the arguments the modelled fractiles lead to.
MathLog(x) ==
    CASE x = F(4096, -22) -> F(-7098, -10)
      [] x = F(4194, -22) -> F(-7074, -10)
      [] x = F(5243, -19) -> F(-4716, -10)
      [] x = F(5243, -18) -> F(-8012, -11)
      [] x = F(5248, -19) -> F(-4715, -10)
      [] x = F(5248, -18) -> F(-8010, -11)
      [] x = F(5984, -18) -> F(-7741, -11)

\* ((cs[1]*x + cs[2])*x + ...)*x + cs[n]
RECURSIVE Horner(_, _, _, _)
Horner(cs, x, i, acc) ==
    IF i > Len(cs) THEN acc
    ELSE Horner(cs, x, i + 1, Add(Mul(acc, x), cs[i]))

Poly(cs, x) == Horner(cs, x, 2, cs[1])

\* The value both tail branches share, at q = sqrt(-2*log(.)).
TailValue(q) == Div(Poly(c, q), Poly(d \o <<One>>, q))

\* As CentralValue, without the factor q of the numerator.
CentralValue_noq(p) ==
    LET q == Sub(p, FromRat(1, 2))
        r == Mul(q, q)
    IN  Div(Poly(a, r), Poly(b \o <<One>>, r))

\* The central branch.
CentralValue(p) ==
    LET q == Sub(p, FromRat(1, 2))
        r == Mul(q, q)
    IN  Div(Mul(Poly(a, r), q), Poly(b \o <<One>>, r))

inverse_normal_cdf(p, steps) ==
    IF Le(p, Zero) \/ Le(One, p)
    THEN Raise(ErrDomainP, steps)
    ELSE IF Lt(p, plow)
    THEN Ret(TailValue(Sqrt(Mul(FromInt(-2), MathLog(p)))), steps)
    ELSE IF Lt(phigh, p)
    THEN Ret(Neg(TailValue(Sqrt(Mul(FromInt(-2), MathLog(Sub(One, p)))))),
             steps)
    ELSE Ret(CentralValue(p), steps)

----------------------------------------------------------------------------
\* calculate_velocity_of_corrosion

ValidCorrosionTypes == {"carbonation_induced", "chloride_induced"}

ValidExposureClassesForCarbonationInducedCorrosion ==
    {"Sheltered", "Unsheltered"}

ValidExposureClassesForChlorideInducedCorrosion ==
    {"Wet", "Cyclic_dry_wet", "Airborn_seawater", "Submerged", "Tidal_zone"}

\* As DefaultExposureClass, with the first class of each list as default.
DefaultExposureClass_first(corrosion_type, exposure_class) ==
    IF exposure_class = NoneStr
    THEN IF corrosion_type = "carbonation_induced" THEN "Sheltered"
         ELSE IF corrosion_type = "chloride_induced" THEN "Wet"
         ELSE exposure_class
    ELSE exposure_class

\* exposure_class after the defaulting of an unset class.
DefaultExposureClass(corrosion_type, exposure_class) ==
    IF exposure_class = NoneStr
    THEN IF corrosion_type = "carbonation_induced" THEN "Unsheltered"
         ELSE IF corrosion_type = "chloride_induced" THEN "Cyclic_dry_wet"
         ELSE exposure_class
    ELSE exposure_class

\* As ExposureClassError, with 'or' for 'and' in the first check.
ExposureClassError_or(corrosion_type, exposure_class) ==
    IF corrosion_type = "carbonation_induced"
       \/ exposure_class \notin ValidExposureClassesForCarbonationInducedCorrosion
    THEN ErrExposureCarbonation
    ELSE IF corrosion_type = "chloride_induced"
            /\ exposure_class \notin ValidExposureClassesForChlorideInducedCorrosion
    THEN ErrExposureChloride
    ELSE "none"

\* The two exposure_class checks: the message raised, or "none".
ExposureClassError(corrosion_type, exposure_class) ==
    IF corrosion_type = "carbonation_induced"
       /\ exposure_class \notin ValidExposureClassesForCarbonationInducedCorrosion
    THEN ErrExposureCarbonation
    ELSE IF corrosion_type = "chloride_induced"
            /\ exposure_class \notin ValidExposureClassesForChlorideInducedCorrosion
    THEN ErrExposureChloride
    ELSE "none"

table_mean(corrosion_type) ==
    IF corrosion_type = "carbonation_induced"
    THEN [Sheltered |-> 2, Unsheltered |-> 5]
    ELSE [Wet |-> 4, Cyclic_dry_wet |-> 30, Airborn_seawater |-> 30,
          Submerged |-> 4, Tidal_zone |-> 50]

table_sd(corrosion_type) ==
    IF corrosion_type = "carbonation_induced"
    THEN [Sheltered |-> 3, Unsheltered |-> 1]
    ELSE [Wet |-> 6, Cyclic_dry_wet |-> 40, Airborn_seawater |-> 40,
          Submerged |-> 7, Tidal_zone |-> 100]

\* Pcorr_rep = mean_value + z * sd_value
Pcorr(mean_value, sd_value, z) ==
    Add(FromInt(mean_value), Mul(z, FromInt(sd_value)))

\* As ValidateResult, without the check of the result.
ValidateResult_unchecked(Pcorr_rep, steps) == Ret(Pcorr_rep, steps)

\* Validate the result and return it.
ValidateResult(Pcorr_rep, steps) ==
    IF Le(Pcorr_rep, Zero)
    THEN Raise(ErrPcorr, steps)
    ELSE Ret(Pcorr_rep, steps)

\* As VelocityFromFractile, without the check of the fractile.
VelocityFromFractile_unchecked(corrosion_type, exposure_class, fractile, steps) ==
    LET mean_value == table_mean(corrosion_type)[exposure_class]
        sd_value   == table_sd(corrosion_type)[exposure_class]
        st         == steps \o <<"fractile", "lookup", "inverse_normal_cdf">>
        z          == inverse_normal_cdf(fractile, st)
    IN  IF z.kind = "raise" THEN z
        ELSE ValidateResult(Pcorr(mean_value, sd_value, z.value[1]),
                            st \o <<"result">>)

\* The body of the function, from the fractile check on.
VelocityFromFractile(corrosion_type, exposure_class, fractile, steps) ==
    IF Le(fractile, Zero) \/ Le(One, fractile)
    THEN Raise(ErrFractile, steps \o <<"fractile">>)
    ELSE LET mean_value == table_mean(corrosion_type)[exposure_class]
             sd_value   == table_sd(corrosion_type)[exposure_class]
             st         == steps \o <<"fractile", "lookup", "inverse_normal_cdf">>
             z          == inverse_normal_cdf(fractile, st)
         IN  IF z.kind = "raise" THEN z
             ELSE ValidateResult(Pcorr(mean_value, sd_value, z.value[1]),
                                 st \o <<"result">>)

\* As calculate_velocity_of_corrosion, with the fractile checked before the
\* exposure class.
calculate_velocity_of_corrosion_fractilefirst(corrosion_type, exposure_class, fractile, design_code, active) ==
    IF UseDesignCode(design_code, active) = NoneStr
    THEN Raise(ErrDesignCode, <<"design_code">>)
    ELSE IF corrosion_type \notin ValidCorrosionTypes
    THEN Raise(ErrCorrosionType, <<"design_code", "corrosion_type">>)
    ELSE IF Le(fractile, Zero) \/ Le(One, fractile)
    THEN Raise(ErrFractile, <<"design_code", "corrosion_type", "fractile">>)
    ELSE LET ec  == DefaultExposureClass(corrosion_type, exposure_class)
             err == ExposureClassError(corrosion_type, ec)
             st  == <<"design_code", "corrosion_type", "exposure_class">>
         IN  IF err # "none" THEN Raise(err, st)
             ELSE VelocityFromFractile(corrosion_type, ec, fractile, st)

calculate_velocity_of_corrosion(corrosion_type, exposure_class, fractile, design_code, active) ==
    IF UseDesignCode(design_code, active) = NoneStr
    THEN Raise(ErrDesignCode, <<"design_code">>)
    ELSE IF corrosion_type \notin ValidCorrosionTypes
    THEN Raise(ErrCorrosionType, <<"design_code", "corrosion_type">>)
    ELSE LET ec  == DefaultExposureClass(corrosion_type, exposure_class)
             err == ExposureClassError(corrosion_type, ec)
             st  == <<"design_code", "corrosion_type", "exposure_class">>
         IN  IF err # "none" THEN Raise(err, st)
             ELSE VelocityFromFractile(corrosion_type, ec, fractile, st)

----------------------------------------------------------------------------
\* calculate_minimum_area_after_corrosion

\* uncorroded_diameter = sqrt(uncorroded_area/math.pi)*2
UncorrodedDiameter(uncorroded_area) ==
    Mul(Sqrt(Div(uncorroded_area, Pi)), Two)

\* As ResidualRadiusMassLoss, with the lost fraction of the area taken for
\* the remaining one.
ResidualRadiusMassLoss_lost(uncorroded_area, pitting_factor, mass_loss) ==
    LET uncorroded_diameter   == UncorrodedDiameter(uncorroded_area)
        corroded_average_area == Mul(uncorroded_area, mass_loss)
        corroded_average_pit  ==
            Sub(Div(uncorroded_diameter, Two),
                Sqrt(Div(corroded_average_area, Pi)))
        corroded_maximum_pit  == Mul(pitting_factor, corroded_average_pit)
    IN  Sub(Div(uncorroded_diameter, Two), corroded_maximum_pit)

\* uncorroded_diameter/2 - corroded_maximum_pit, mass-loss mode.
ResidualRadiusMassLoss(uncorroded_area, pitting_factor, mass_loss) ==
    LET uncorroded_diameter   == UncorrodedDiameter(uncorroded_area)
        corroded_average_area == Mul(uncorroded_area, Sub(One, mass_loss))
        corroded_average_pit  ==
            Sub(Div(uncorroded_diameter, Two),
                Sqrt(Div(corroded_average_area, Pi)))
        corroded_maximum_pit  == Mul(pitting_factor, corroded_average_pit)
    IN  Sub(Div(uncorroded_diameter, Two), corroded_maximum_pit)

\* As MassLossArea, without the check of the residual radius.
MassLossArea_unchecked(uncorroded_area, pitting_factor, mass_loss, steps) ==
    LET residual_radius ==
            ResidualRadiusMassLoss(uncorroded_area, pitting_factor, mass_loss)
    IN  Ret(Mul(Mul(residual_radius, residual_radius), Pi), steps)

\* Calculate corroded area if mass_loss is given.
MassLossArea(uncorroded_area, pitting_factor, mass_loss, steps) ==
    LET residual_radius ==
            ResidualRadiusMassLoss(uncorroded_area, pitting_factor, mass_loss)
        corroded_minimum_area == Mul(Mul(residual_radius, residual_radius), Pi)
    IN  IF Lt(residual_radius, Zero)
        THEN Raise(ErrNegMassLoss, steps)
        ELSE Ret(corroded_minimum_area, steps)

\* As AveragePit, without the conversion of the velocity.
AveragePit_micrometers(velocity_of_corrosion, time_of_corrosion) ==
    Mul(velocity_of_corrosion, time_of_corrosion)

\* corroded_average_pit, velocity/time mode (with the conversion from
\* micrometers/year to millimeters/year).
AveragePit(velocity_of_corrosion, time_of_corrosion) ==
    Mul(Div(velocity_of_corrosion, FromInt(1000)), time_of_corrosion)

\* As ResidualRadiusVelocityTime, with the pit added to the radius.
ResidualRadiusVelocityTime_plus(uncorroded_area, pitting_factor, velocity_of_corrosion, time_of_corrosion) ==
    LET corroded_maximum_pit ==
            Mul(pitting_factor,
                AveragePit(velocity_of_corrosion, time_of_corrosion))
    IN  Add(Div(UncorrodedDiameter(uncorroded_area), Two),
            corroded_maximum_pit)

\* uncorroded_diameter/2 - corroded_maximum_pit, velocity/time mode.
ResidualRadiusVelocityTime(uncorroded_area, pitting_factor, velocity_of_corrosion, time_of_corrosion) ==
    LET corroded_maximum_pit ==
            Mul(pitting_factor,
                AveragePit(velocity_of_corrosion, time_of_corrosion))
    IN  Sub(Div(UncorrodedDiameter(uncorroded_area), Two),
            corroded_maximum_pit)

\* As VelocityTimeArea, with the check of corroded_average_pit only.
VelocityTimeArea_pitonly(uncorroded_area, pitting_factor, velocity_of_corrosion, time_of_corrosion, steps) ==
    LET residual_radius ==
            ResidualRadiusVelocityTime(uncorroded_area, pitting_factor,
                                       velocity_of_corrosion,
                                       time_of_corrosion)
        corroded_minimum_area == Mul(Mul(residual_radius, residual_radius), Pi)
    IN  IF Lt(UncorrodedDiameter(uncorroded_area),
              AveragePit(velocity_of_corrosion, time_of_corrosion))
        THEN Raise(ErrNegVT, steps \o <<"pit">>)
        ELSE Ret(corroded_minimum_area, steps \o <<"pit", "residual_radius">>)

\* Calculate corroded area if time_of_corrosion and velocity_of_corrosion
\* are given.
VelocityTimeArea(uncorroded_area, pitting_factor, velocity_of_corrosion, time_of_corrosion, steps) ==
    LET residual_radius ==
            ResidualRadiusVelocityTime(uncorroded_area, pitting_factor,
                                       velocity_of_corrosion,
                                       time_of_corrosion)
        corroded_minimum_area == Mul(Mul(residual_radius, residual_radius), Pi)
    IN  IF Lt(UncorrodedDiameter(uncorroded_area),
              AveragePit(velocity_of_corrosion, time_of_corrosion))
        THEN Raise(ErrNegVT, steps \o <<"pit">>)
        ELSE IF Lt(residual_radius, Zero)
        THEN Raise(ErrNegVTPitting, steps \o <<"pit", "residual_radius">>)
        ELSE Ret(corroded_minimum_area, steps \o <<"pit", "residual_radius">>)

\* Input data validation: the message of the first check that fails, or
\* "none".  An optional argument is <<>> (None) or <<x>>.
InputError(uncorroded_area, pitting_factor, mass_loss, velocity_of_corrosion, time_of_corrosion) ==
    IF mass_loss # <<>>
       /\ (velocity_of_corrosion # <<>> \/ time_of_corrosion # <<>>)
    THEN ErrTooMany
    ELSE IF (velocity_of_corrosion # <<>> /\ time_of_corrosion = <<>>)
            \/ (velocity_of_corrosion = <<>> /\ time_of_corrosion # <<>>)
    THEN ErrMissing
    ELSE IF Lt(pitting_factor, One)
    THEN ErrPitting
    ELSE IF Lt(uncorroded_area, Zero)
    THEN ErrArea
    ELSE IF mass_loss # <<>>
            /\ (Lt(mass_loss[1], Zero) \/ Lt(One, mass_loss[1]))
    THEN ErrMassLoss
    ELSE IF velocity_of_corrosion # <<>> /\ Lt(velocity_of_corrosion[1], Zero)
    THEN ErrVelocity
    ELSE IF time_of_corrosion # <<>> /\ Lt(time_of_corrosion[1], Zero)
    THEN ErrTime
    ELSE "none"

calculate_minimum_area_after_corrosion(uncorroded_area, pitting_factor, mass_loss, velocity_of_corrosion, time_of_corrosion, design_code, active) ==
    IF Lt(uncorroded_area, Zero)
    THEN \* sqrt(uncorroded_area/math.pi) raises before any check
         Raise(ErrMathDomain, <<"diameter">>)
    ELSE IF UseDesignCode(design_code, active) = NoneStr
    THEN Raise(ErrDesignCode, <<"diameter", "design_code">>)
    ELSE LET err == InputError(uncorroded_area, pitting_factor, mass_loss,
                               velocity_of_corrosion, time_of_corrosion)
             st  == <<"diameter", "design_code", "validation">>
         IN  IF err # "none" THEN Raise(err, st)
             ELSE IF mass_loss # <<>>
             THEN MassLossArea(uncorroded_area, pitting_factor, mass_loss[1],
                               st \o <<"mass_loss">>)
             ELSE IF velocity_of_corrosion # <<>> /\ time_of_corrosion # <<>>
             THEN VelocityTimeArea(uncorroded_area, pitting_factor,
                                   velocity_of_corrosion[1],
                                   time_of_corrosion[1],
                                   st \o <<"velocity_time">>)
             ELSE RetNone(st)

----------------------------------------------------------------------------
\* The state: the registry's global design code, the call the caller has
\* made (its arguments as passed) and the outcome it got.  past is the
\* caller's own note of an earlier call (the call, the design code active
\* then, and what came back); the functions never see it.

VARIABLES activeCode, call, outcome, past

vars == <<activeCode, call, outcome, past>>

\* Largest whole pitting factor the callers pass.
MaxPitting == 3

\* Arguments the callers pass.  "<omitted>" and <<>> stand for an argument
\* left out (string-valued and float-valued); the signature's default is
\* then used.
Omitted == "<omitted>"

CorrosionTypeArgs ==
    {Omitted, "carbonation_induced", "chloride_induced", "pitting_induced"}

ExposureClassArgs ==
    {NoneStr, "chloride_induced", "Sheltered", "Unsheltered", "Wet",
     "Cyclic_dry_wet", "Airborn_seawater", "Submerged", "Tidal_zone"}

\* 0.8413 is F(6892, -13).
FractileArgs ==
    {<<>>}
        \cup {<<FromRat(n, 1000)>> :
                n \in {-100, 0, 1, 10, 20, 100, 300, 500, 700, 980, 990,
                       999, 1000, 1500}}
        \cup {<<F(6892, -13)>>, <<FromRat(2443, 2500)>>}

DesignCodeArgs == {NoneStr, "ec2_2004", "invaliddesigncode"}

\* A bar of radius 8 mm has area 64*pi.
AreaArgs ==
    {FromInt(n) : n \in {-1, 0, 1, 2, 50, 100, 200}}
        \cup {Mul(FromInt(64), Pi), FromRat(1, 100)}

PittingFactorArgs ==
    {<<>>, <<FromRat(1, 2)>>, <<FromRat(6, 5)>>}
        \cup {<<FromInt(n)>> : n \in 1..MaxPitting}

MassLossArgs ==
    {<<>>} \cup {<<FromRat(n, 20)>> : n \in {-10, 0, 6, 10, 15, 18, 20, 30}}

VelocityArgs == {<<>>} \cup {<<FromInt(n)>> : n \in {-1, 0, 50, 100}}

TimeArgs == {<<>>} \cup {<<FromInt(n)>> : n \in {-1, 0, 10, 40, 50, 80, 100}}

NoCall == [fn |-> "none"]

\* The caller has noted no call yet.
NoPast == <<>>

Init ==
    /\ activeCode = NoneStr
    /\ call = NoCall
    /\ outcome = NoOutcome
    /\ past = NoPast

\* structuralcodes.set_design_code, called between two calls.
SetDesignCode(code) ==
    /\ call.fn = "none"
    /\ activeCode' = code
    /\ UNCHANGED <<call, outcome, past>>

\* The call as if it stored the design code it resolved in the registry.
CallVelocity_setscode(corrosion_type, exposure_class, fractile, design_code) ==
    /\ call.fn = "none"
    /\ call' = [fn             |-> "calculate_velocity_of_corrosion",
                corrosion_type |-> corrosion_type,
                exposure_class |-> exposure_class,
                fractile       |-> fractile,
                design_code    |-> design_code]
    /\ outcome' = calculate_velocity_of_corrosion(
                      IF corrosion_type = Omitted THEN "chloride_induced"
                                                  ELSE corrosion_type,
                      exposure_class,
                      IF fractile = <<>> THEN FromRat(1, 2) ELSE fractile[1],
                      design_code, activeCode)
    /\ activeCode' = UseDesignCode(design_code, activeCode)
    /\ UNCHANGED past

\* A call of calculate_velocity_of_corrosion, to its return or raise.
CallVelocity(corrosion_type, exposure_class, fractile, design_code) ==
    /\ call.fn = "none"
    /\ call' = [fn             |-> "calculate_velocity_of_corrosion",
                corrosion_type |-> corrosion_type,
                exposure_class |-> exposure_class,
                fractile       |-> fractile,
                design_code    |-> design_code]
    /\ outcome' = calculate_velocity_of_corrosion(
                      IF corrosion_type = Omitted THEN "chloride_induced"
                                                  ELSE corrosion_type,
                      exposure_class,
                      IF fractile = <<>> THEN FromRat(1, 2) ELSE fractile[1],
                      design_code, activeCode)
    /\ UNCHANGED <<activeCode, past>>

\* A call of calculate_minimum_area_after_corrosion, to its return or raise.
CallMinimumArea(uncorroded_area, pitting_factor, mass_loss, velocity_of_corrosion, time_of_corrosion, design_code) ==
    /\ call.fn = "none"
    /\ call' = [fn                    |-> "calculate_minimum_area_after_corrosion",
                uncorroded_area       |-> uncorroded_area,
                pitting_factor        |-> pitting_factor,
                mass_loss             |-> mass_loss,
                velocity_of_corrosion |-> velocity_of_corrosion,
                time_of_corrosion     |-> time_of_corrosion,
                design_code           |-> design_code]
    /\ outcome' = calculate_minimum_area_after_corrosion(
                      uncorroded_area,
                      IF pitting_factor = <<>> THEN One ELSE pitting_factor[1],
                      mass_loss, velocity_of_corrosion, time_of_corrosion,
                      design_code, activeCode)
    /\ UNCHANGED <<activeCode, past>>

\* The caller takes the value or handles the exception and goes on.
CallerContinues ==
    /\ call.fn # "none"
    /\ call' = NoCall
    /\ outcome' = NoOutcome
    /\ UNCHANGED <<activeCode, past>>

\* The caller goes on and keeps a note of the call and what came back.
CallerRemembers ==
    /\ call.fn # "none"
    /\ past' = <<[call |-> call, code |-> activeCode, outcome |-> outcome]>>
    /\ call' = NoCall
    /\ outcome' = NoOutcome
    /\ UNCHANGED activeCode

\* No call is in progress.
Idle == call.fn = "none"

Next ==
    \/ \E code \in DesignCodes \cup {NoneStr} : SetDesignCode(code)
    \/ /\ Idle
       /\ \E corrosion_type \in CorrosionTypeArgs,
             exposure_class \in ExposureClassArgs,
             fractile \in FractileArgs,
             design_code \in DesignCodeArgs :
               CallVelocity(corrosion_type, exposure_class, fractile,
                            design_code)
    \/ /\ Idle
       /\ \E uncorroded_area \in AreaArgs,
             pitting_factor \in PittingFactorArgs,
             mass_loss \in MassLossArgs,
             velocity_of_corrosion \in VelocityArgs,
             time_of_corrosion \in TimeArgs,
             design_code \in DesignCodeArgs :
               CallMinimumArea(uncorroded_area, pitting_factor, mass_loss,
                               velocity_of_corrosion, time_of_corrosion,
                               design_code)
    \/ CallerContinues

Spec == Init /\ [][Next]_vars

\* A caller that repeats calls: it notes one call and compares later calls
\* with the note.  The arguments are a part of the ones above, some of
\* them accepted and some rejected.
RepeatCorrosionTypeArgs == {Omitted, "carbonation_induced", "pitting_induced"}

RepeatExposureClassArgs == {NoneStr, "Sheltered"}

RepeatFractileArgs == {<<>>, <<F(6892, -13)>>, <<FromRat(1500, 1000)>>}

RepeatDesignCodeArgs == {NoneStr, "mc2010"}

RepeatAreaArgs == {FromInt(-1), FromInt(100), Mul(FromInt(64), Pi)}

RepeatPittingFactorArgs == {<<>>, <<Two>>}

RepeatMassLossArgs == {<<>>, <<FromRat(6, 20)>>}

RepeatVelocityArgs == {<<>>, <<FromInt(100)>>}

RepeatTimeArgs == {<<>>, <<FromInt(10)>>}

NextHistory ==
    \/ \E code \in DesignCodes \cup {NoneStr} : SetDesignCode(code)
    \/ /\ Idle
       /\ \E corrosion_type \in RepeatCorrosionTypeArgs,
             exposure_class \in RepeatExposureClassArgs,
             fractile \in RepeatFractileArgs,
             design_code \in RepeatDesignCodeArgs :
               CallVelocity(corrosion_type, exposure_class, fractile,
                            design_code)
    \/ /\ Idle
       /\ \E uncorroded_area \in RepeatAreaArgs,
             pitting_factor \in RepeatPittingFactorArgs,
             mass_loss \in RepeatMassLossArgs,
             velocity_of_corrosion \in RepeatVelocityArgs,
             time_of_corrosion \in RepeatTimeArgs,
             design_code \in RepeatDesignCodeArgs :
               CallMinimumArea(uncorroded_area, pitting_factor, mass_loss,
                               velocity_of_corrosion, time_of_corrosion,
                               design_code)
    \/ CallerContinues
    \/ CallerRemembers

SpecHistory == Init /\ [][NextHistory]_vars

----------------------------------------------------------------------------
\* Vocabulary of the properties.

IsVelocityCall == call.fn = "calculate_velocity_of_corrosion"

IsMinimumAreaCall == call.fn = "calculate_minimum_area_after_corrosion"

\* The call had a design code: a valid per-call one or the global one.
CodeResolvable == UseDesignCode(call.design_code, activeCode) # NoneStr

\* The errors raised by the input and result checks of the two functions
\* (all but the missing design code, math.sqrt's and inverse_normal_cdf's).
ValidationErrors ==
    {ErrCorrosionType, ErrExposureCarbonation, ErrExposureChloride,
     ErrFractile, ErrPcorr, ErrTooMany, ErrMissing, ErrPitting, ErrArea,
     ErrMassLoss, ErrVelocity, ErrTime, ErrNegMassLoss, ErrNegVT,
     ErrNegVTPitting}

FailsWithValidationError ==
    outcome.kind = "raise" /\ outcome.error \in ValidationErrors

\* The arguments of the call in progress, defaults applied.
ArgCorrosionType ==
    IF call.corrosion_type = Omitted THEN "chloride_induced"
                                     ELSE call.corrosion_type

ArgFractile ==
    IF call.fractile = <<>> THEN FromRat(1, 2) ELSE call.fractile[1]

ArgPittingFactor ==
    IF call.pitting_factor = <<>> THEN One ELSE call.pitting_factor[1]

\* Table 1 of the specification: mean (micrometers/year) of each pair.
Table1Mean ==
    [p \in {<<"carbonation_induced", "Sheltered">>,
            <<"carbonation_induced", "Unsheltered">>,
            <<"chloride_induced", "Wet">>,
            <<"chloride_induced", "Cyclic_dry_wet">>,
            <<"chloride_induced", "Airborn_seawater">>,
            <<"chloride_induced", "Submerged">>,
            <<"chloride_induced", "Tidal_zone">>} |->
        CASE p = <<"carbonation_induced", "Sheltered">>   -> 2
          [] p = <<"carbonation_induced", "Unsheltered">> -> 5
          [] p = <<"chloride_induced", "Wet">>            -> 4
          [] p = <<"chloride_induced", "Cyclic_dry_wet">> -> 30
          [] p = <<"chloride_induced", "Airborn_seawater">> -> 30
          [] p = <<"chloride_induced", "Submerged">>      -> 4
          [] p = <<"chloride_induced", "Tidal_zone">>     -> 50]

Table1Pairs == DOMAIN Table1Mean

----------------------------------------------------------------------------
\* C1: calculate_minimum_area_after_corrosion requires a calculation mode:
\* with a design code, an area >= 0 and a pitting factor >= 1, a call with
\* mass_loss, velocity_of_corrosion and time_of_corrosion all unset fails
\* with a validation error, and no call returns without a numeric area.
C1_ModeRequired ==
    IsMinimumAreaCall =>
        /\ (/\ CodeResolvable
            /\ ~Lt(call.uncorroded_area, Zero)
            /\ ~Lt(ArgPittingFactor, One)
            /\ call.mass_loss = <<>>
            /\ call.velocity_of_corrosion = <<>>
            /\ call.time_of_corrosion = <<>>)
              => FailsWithValidationError
        /\ outcome.kind = "return" => outcome.value # <<>>

\* C2: without a resolvable design code both functions fail with the
\* 'design code is not set' error, whatever the other arguments are.
C2_DesignCodeFirst ==
    (~Idle /\ ~CodeResolvable) =>
        outcome.kind = "raise" /\ outcome.error = ErrDesignCode

\* C3: with a design code, calculate_minimum_area_after_corrosion fails with
\* a validation error when mass_loss comes with velocity_of_corrosion or
\* time_of_corrosion, when exactly one of the latter two is given, when
\* pitting_factor < 1, uncorroded_area < 0, mass_loss is outside [0,1],
\* velocity_of_corrosion < 0 or time_of_corrosion < 0.
C3_InvalidInputsRejected ==
    (/\ IsMinimumAreaCall
     /\ CodeResolvable
     /\ \/ call.mass_loss # <<>>
           /\ (call.velocity_of_corrosion # <<>>
               \/ call.time_of_corrosion # <<>>)
        \/ (call.velocity_of_corrosion = <<>>)
              # (call.time_of_corrosion = <<>>)
        \/ Lt(ArgPittingFactor, One)
        \/ Lt(call.uncorroded_area, Zero)
        \/ call.mass_loss # <<>>
           /\ (Lt(call.mass_loss[1], Zero) \/ Lt(One, call.mass_loss[1]))
        \/ call.velocity_of_corrosion # <<>>
           /\ Lt(call.velocity_of_corrosion[1], Zero)
        \/ call.time_of_corrosion # <<>>
           /\ Lt(call.time_of_corrosion[1], Zero))
      => FailsWithValidationError

\* C4: with a design code, calculate_velocity_of_corrosion fails with the
\* corrosion_type or exposure_class validation error for every given pair
\* (corrosion_type, exposure_class) that is not in Table 1, and with
\* neither of them for a pair that is in Table 1.
C4_PairsOutsideTableRejected ==
    (IsVelocityCall /\ CodeResolvable /\ call.exposure_class # NoneStr) =>
        IF <<ArgCorrosionType, call.exposure_class>> \in Table1Pairs
        THEN outcome.error \notin
                 {ErrCorrosionType, ErrExposureCarbonation, ErrExposureChloride}
        ELSE /\ outcome.kind = "raise"
             /\ outcome.error =
                    IF ArgCorrosionType = "carbonation_induced"
                    THEN ErrExposureCarbonation
                    ELSE IF ArgCorrosionType = "chloride_induced"
                    THEN ErrExposureChloride
                    ELSE ErrCorrosionType

\* A pair outside Table 1 was rejected and a pair inside it was accepted.
C4_Witness ==
    /\ IsVelocityCall
    /\ CodeResolvable
    /\ ArgCorrosionType = "carbonation_induced"
    /\ call.exposure_class = "Wet"
    /\ outcome.error = ErrExposureCarbonation

\* C5: with a design code, for each pair of Table 1 the call with fractile
\* 0.5, given or omitted, returns exactly the tabulated mean; the
\* inverse-normal approximation takes its central branch at 0.5 and yields
\* exactly 0.
C5_MedianIsMean ==
    /\ (/\ IsVelocityCall
        /\ CodeResolvable
        /\ <<ArgCorrosionType, call.exposure_class>> \in Table1Pairs
        /\ call.fractile \in {<<>>, <<FromRat(1, 2)>>})
          => /\ outcome.kind = "return"
             /\ outcome.value =
                  <<FromInt(Table1Mean[<<ArgCorrosionType,
                                         call.exposure_class>>])>>
    /\ ~Lt(FromRat(1, 2), plow) /\ ~Lt(phigh, FromRat(1, 2))
    /\ inverse_normal_cdf(FromRat(1, 2), <<>>).value = <<Zero>>

\* The mean of chloride_induced / Tidal_zone was returned for an omitted
\* fractile.
C5_Witness ==
    /\ IsVelocityCall
    /\ CodeResolvable
    /\ ArgCorrosionType = "chloride_induced"
    /\ call.exposure_class = "Tidal_zone"
    /\ call.fractile = <<>>
    /\ outcome.kind = "return"
    /\ outcome.value = <<FromInt(50)>>

\* C6: every value calculate_velocity_of_corrosion returns is > 0; when
\* mean + z*sd is <= 0 for the pair and the fractile, the call fails with
\* the validation error of the result.
C6_ReturnedVelocityPositive ==
    IsVelocityCall =>
        /\ outcome.kind = "return" =>
              outcome.value # <<>> /\ Lt(Zero, outcome.value[1])
        /\ LET ec == DefaultExposureClass(ArgCorrosionType, call.exposure_class)
           IN  (/\ CodeResolvable
                /\ <<ArgCorrosionType, ec>> \in Table1Pairs
                /\ Lt(Zero, ArgFractile) /\ Lt(ArgFractile, One)
                /\ Le(Pcorr(table_mean(ArgCorrosionType)[ec],
                            table_sd(ArgCorrosionType)[ec],
                            inverse_normal_cdf(ArgFractile, <<>>).value[1]),
                      Zero))
                  => outcome.kind = "raise" /\ outcome.error = ErrPcorr

\* carbonation_induced / Sheltered with fractile 0.001 was rejected for its
\* result.
C6_Witness ==
    /\ IsVelocityCall
    /\ CodeResolvable
    /\ ArgCorrosionType = "carbonation_induced"
    /\ call.exposure_class = "Sheltered"
    /\ call.fractile = <<FromRat(1, 1000)>>
    /\ outcome.kind = "raise"
    /\ outcome.error = ErrPcorr

\* The call passed the design-code check and the input data validation.
InputsAccepted ==
    /\ IsMinimumAreaCall
    /\ CodeResolvable
    /\ ~Lt(call.uncorroded_area, Zero)
    /\ InputError(call.uncorroded_area, ArgPittingFactor, call.mass_loss,
                  call.velocity_of_corrosion, call.time_of_corrosion) = "none"

MassLossMode == InputsAccepted /\ call.mass_loss # <<>>

VelocityTimeMode ==
    /\ InputsAccepted
    /\ call.velocity_of_corrosion # <<>>
    /\ call.time_of_corrosion # <<>>

\* residual_radius of the call in progress.
ResidualRadius ==
    IF call.mass_loss # <<>>
    THEN ResidualRadiusMassLoss(call.uncorroded_area, ArgPittingFactor,
                                call.mass_loss[1])
    ELSE ResidualRadiusVelocityTime(call.uncorroded_area, ArgPittingFactor,
                                    call.velocity_of_corrosion[1],
                                    call.time_of_corrosion[1])

\* C7: in both modes, with inputs that pass the range checks, the call
\* fails with a validation error when residual_radius is negative and
\* returns only when residual_radius >= 0; a returned area is >= 0.
C7_NegativeRadiusRejected ==
    (MassLossMode \/ VelocityTimeMode) =>
        /\ Lt(ResidualRadius, Zero) => FailsWithValidationError
        /\ outcome.kind = "return" =>
              /\ ~Lt(ResidualRadius, Zero)
              /\ outcome.value # <<>>
              /\ Le(Zero, outcome.value[1])

\* A mass loss of 0.9 with pitting factor 2 was rejected for its negative
\* residual radius.
C7_Witness ==
    /\ MassLossMode
    /\ call.mass_loss = <<FromRat(9, 10)>>
    /\ ArgPittingFactor = Two
    /\ Lt(Zero, call.uncorroded_area)
    /\ Lt(ResidualRadius, Zero)
    /\ outcome.kind = "raise"
    /\ outcome.error = ErrNegMassLoss

\* |x|
AbsF(x) == IF x.m < 0 THEN Neg(x) ELSE x

\* The relative error allowed for rounding: 8 units in the last place of
\* the significand (the tests allow 1e-8 with a significand of 53 bits).
RoundingTolerance == RoundInt(1, 3 - Prec)

\* x and y differ by at most the rounding tolerance times the uncorroded
\* area of the call.
EqualUpToRounding(x, y) ==
    Le(AbsF(Sub(x, y)), Mul(RoundingTolerance, call.uncorroded_area))

\* pi * (R - k * (R - sqrt(A*(1-m)/pi)))^2 with R = sqrt(A/pi), for the
\* call in progress.
MassLossFormula ==
    LET A == call.uncorroded_area
        R == Sqrt(Div(A, Pi))
        x == Sub(R, Mul(ArgPittingFactor,
                        Sub(R, Sqrt(Div(Mul(A, Sub(One, call.mass_loss[1])),
                                        Pi)))))
    IN  Mul(Pi, Mul(x, x))

\* (1 - m) * A for the call in progress.
RemainingArea == Mul(Sub(One, call.mass_loss[1]), call.uncorroded_area)

\* C8 as stated: in mass-loss mode a successful call returns
\* pi*(R - k*(R - sqrt(A*(1-m)/pi)))^2; the result equals A when m = 0,
\* (1-m)*A when k = 1, and 0 when m = 1 and k = 1.
C8_ExactAreas ==
    MassLossMode =>
        /\ outcome.kind = "return" =>
              /\ outcome.value = <<MassLossFormula>>
              /\ call.mass_loss[1] = Zero =>
                    outcome.value[1] = call.uncorroded_area
              /\ ArgPittingFactor = One => outcome.value[1] = RemainingArea
        /\ (call.mass_loss[1] = One /\ ArgPittingFactor = One) =>
              outcome.kind = "return" /\ outcome.value = <<Zero>>

\* C8: in mass-loss mode a successful call returns
\* pi*(R - k*(R - sqrt(A*(1-m)/pi)))^2 as floating-point arithmetic
\* evaluates it; the result equals A when m = 0 and (1-m)*A when k = 1 up
\* to rounding, and exactly 0 when m = 1 and k = 1.
C8_AreasUpToRounding ==
    MassLossMode =>
        /\ outcome.kind = "return" =>
              /\ outcome.value = <<MassLossFormula>>
              /\ call.mass_loss[1] = Zero =>
                    EqualUpToRounding(outcome.value[1], call.uncorroded_area)
              /\ ArgPittingFactor = One =>
                    EqualUpToRounding(outcome.value[1], RemainingArea)
        /\ (call.mass_loss[1] = One /\ ArgPittingFactor = One) =>
              outcome.kind = "return" /\ outcome.value = <<Zero>>

\* Half the mass of a bar of area 100 was lost with pitting factor 1, and
\* the area returned is not exactly 50.
C8_Witness ==
    /\ MassLossMode
    /\ call.uncorroded_area = FromInt(100)
    /\ call.mass_loss = <<FromRat(1, 2)>>
    /\ ArgPittingFactor = One
    /\ outcome.kind = "return"
    /\ outcome.value # <<FromInt(50)>>
    /\ EqualUpToRounding(outcome.value[1], FromInt(50))

\* pi * (R - k * ((v/1000) * t))^2 with R = sqrt(A/pi), for the call in
\* progress.
VelocityTimeFormula ==
    LET R == Sqrt(Div(call.uncorroded_area, Pi))
        x == Sub(R, Mul(ArgPittingFactor,
                        Mul(Div(call.velocity_of_corrosion[1], FromInt(1000)),
                            call.time_of_corrosion[1])))
    IN  Mul(Pi, Mul(x, x))

\* The area of a bar of radius 8 mm.
Area8 == Mul(FromInt(64), Pi)

\* For the bar of radius 8 mm, velocity v, time t and pitting factor k give
\* (r/8)^2 times the area.
Radius8Case(v, t, k, r) ==
    (/\ call.uncorroded_area = Area8
     /\ call.velocity_of_corrosion = <<FromInt(v)>>
     /\ call.time_of_corrosion = <<FromInt(t)>>
     /\ ArgPittingFactor = FromInt(k))
      => /\ outcome.kind = "return"
         /\ outcome.value = <<Mul(FromRat(r * r, 64), Area8)>>

\* C9: in velocity/time mode a successful call returns
\* pi*(R - k*(v/1000)*t)^2; for a bar of radius 8 mm, v=0,t=0 gives A,
\* v=100,t=10,k=1 gives (7/8)^2*A, v=100,t=10,k=2 gives (6/8)^2*A and
\* v=100,t=40,k=1 gives (4/8)^2*A.
C9_VelocityTimeAreas ==
    VelocityTimeMode =>
        /\ outcome.kind = "return" => outcome.value = <<VelocityTimeFormula>>
        /\ Radius8Case(0, 0, 1, 8)
        /\ Radius8Case(0, 0, 2, 8)
        /\ Radius8Case(100, 10, 1, 7)
        /\ Radius8Case(100, 10, 2, 6)
        /\ Radius8Case(100, 40, 1, 4)

\* The bar of radius 8 mm corroded at 100 micrometers/year for 10 years
\* with pitting factor 2, and (6/8)^2 of its area was returned.
C9_Witness ==
    /\ VelocityTimeMode
    /\ call.uncorroded_area = Area8
    /\ call.velocity_of_corrosion = <<FromInt(100)>>
    /\ call.time_of_corrosion = <<FromInt(10)>>
    /\ ArgPittingFactor = Two
    /\ outcome.kind = "return"
    /\ outcome.value = <<Mul(FromRat(36, 64), Area8)>>

\* C10: a call of calculate_velocity_of_corrosion with exposure_class unset
\* has the outcome of the same call with Unsheltered (carbonation_induced)
\* or Cyclic_dry_wet (chloride_induced) given, for every fractile, and does
\* not fail with an exposure_class error.
C10_DefaultExposureClass ==
    (/\ IsVelocityCall
     /\ call.exposure_class = NoneStr
     /\ ArgCorrosionType \in ValidCorrosionTypes)
      => /\ outcome =
              calculate_velocity_of_corrosion(
                  ArgCorrosionType,
                  IF ArgCorrosionType = "carbonation_induced"
                  THEN "Unsheltered" ELSE "Cyclic_dry_wet",
                  ArgFractile, call.design_code, activeCode)
         /\ outcome.error \notin {ErrExposureCarbonation, ErrExposureChloride}

\* carbonation_induced with no exposure_class returned the mean of
\* Unsheltered.
C10_Witness ==
    /\ IsVelocityCall
    /\ CodeResolvable
    /\ call.exposure_class = NoneStr
    /\ ArgCorrosionType = "carbonation_induced"
    /\ call.fractile = <<FromRat(1, 2)>>
    /\ outcome.kind = "return"
    /\ outcome.value = <<FromInt(5)>>

----------------------------------------------------------------------------
\* C11: a call of either function, returning or raising, leaves the active
\* design code as it was, and the outcome of a call depends on nothing but
\* its arguments and the active design code: whenever a call has the same
\* arguments as a call the caller noted earlier, under the same active
\* design code, it has the same outcome as the noted one.
RepeatsNotedCall ==
    /\ ~Idle
    /\ past # NoPast
    /\ call = past[1].call
    /\ activeCode = past[1].code

CallStartsOrEnds == (Idle /\ ~Idle') \/ ~Idle

C11_WitnessFailing ==
    /\ RepeatsNotedCall
    /\ IsMinimumAreaCall
    /\ outcome.kind = "raise"

----------------------------------------------------------------------------
\* The step of calculate_velocity_of_corrosion named s was reached.
Reached(s) == \E i \in DOMAIN outcome.steps : outcome.steps[i] = s

\* exposure_class of the call after the defaulting of an unset class.
ArgExposureClass == DefaultExposureClass(ArgCorrosionType, call.exposure_class)

FractileInRange == Lt(Zero, ArgFractile) /\ Lt(ArgFractile, One)

\* The first check, in the order design code, corrosion_type,
\* exposure_class, fractile, that the arguments of the call fail.
EarliestFailingCheck ==
    IF ~CodeResolvable THEN "design_code"
    ELSE IF ArgCorrosionType \notin {"carbonation_induced", "chloride_induced"}
    THEN "corrosion_type"
    ELSE IF <<ArgCorrosionType, ArgExposureClass>> \notin Table1Pairs
    THEN "exposure_class"
    ELSE IF ~FractileInRange THEN "fractile"
    ELSE "none"

\* The check that raises the error of the outcome.
CheckOfError ==
    CASE outcome.error = ErrDesignCode -> "design_code"
      [] outcome.error = ErrCorrosionType -> "corrosion_type"
      [] outcome.error \in {ErrExposureCarbonation, ErrExposureChloride}
                                        -> "exposure_class"
      [] outcome.error = ErrFractile -> "fractile"
      [] outcome.error = ErrPcorr -> "result"
      [] OTHER -> "other"

\* C12: calculate_velocity_of_corrosion checks the design code, the
\* corrosion_type, the exposure_class (after defaulting), the fractile
\* range and the sign of the result in this order and stops at the first
\* check that fails: the error of a call is that of the earliest check its
\* arguments fail, a call that passes the first four checks returns or
\* fails the check of the result, and the table lookup and the inverse CDF
\* are reached only by calls that pass the first four checks.
C12_ChecksInOrder ==
    IsVelocityCall =>
        /\ EarliestFailingCheck # "none" =>
               /\ outcome.kind = "raise"
               /\ CheckOfError = EarliestFailingCheck
        /\ EarliestFailingCheck = "none" =>
               \/ outcome.kind = "return"
               \/ outcome.kind = "raise" /\ CheckOfError = "result"
        /\ (Reached("lookup") \/ Reached("inverse_normal_cdf")) =>
               EarliestFailingCheck = "none"
        /\ Reached("result") =>
               Reached("lookup") /\ Reached("inverse_normal_cdf")

\* An invalid exposure_class together with a fractile >= 1: the error is
\* that of the exposure_class.
C12_Witness ==
    /\ IsVelocityCall
    /\ EarliestFailingCheck = "exposure_class"
    /\ Le(One, ArgFractile)
    /\ outcome.kind = "raise"
    /\ CheckOfError = "exposure_class"

----------------------------------------------------------------------------
\* C13: no call of calculate_velocity_of_corrosion fails with the domain
\* error of inverse_normal_cdf ("p must be in (0,1)"): inverse_normal_cdf
\* is reached only with a fractile strictly between 0 and 1, and a call
\* with a fractile <= 0 or >= 1 that gets as far as the fractile check
\* fails there, with the fractile error of calculate_velocity_of_corrosion.
C13_DomainErrorUnreachable ==
    IsVelocityCall =>
        /\ outcome.error # ErrDomainP
        /\ Reached("inverse_normal_cdf") => FractileInRange
        /\ ~FractileInRange =>
               /\ outcome.kind = "raise"
               /\ ~Reached("inverse_normal_cdf")
               /\ Reached("fractile") => outcome.error = ErrFractile

\* A fractile <= 0 or >= 1 with the other arguments valid: the fractile
\* check is reached and raises.
C13_Witness ==
    /\ IsVelocityCall
    /\ ~FractileInRange
    /\ Reached("fractile")
    /\ outcome.kind = "raise"
    /\ outcome.error = ErrFractile

----------------------------------------------------------------------------
\* corroded_average_pit and uncorroded_diameter of a velocity/time call.
CallAveragePit ==
    AveragePit(call.velocity_of_corrosion[1], call.time_of_corrosion[1])

CallDiameter == UncorrodedDiameter(call.uncorroded_area)

\* pitting_factor * (v/1000) * t > uncorroded_diameter / 2
MaximumPitExceedsRadius ==
    Lt(Div(CallDiameter, Two), Mul(ArgPittingFactor, CallAveragePit))

\* C14: in velocity/time mode, with inputs that pass the range checks, the
\* call fails exactly when pitting_factor * (v/1000) * t exceeds
\* uncorroded_diameter / 2; and whenever corroded_average_pit exceeds
\* uncorroded_diameter (the earlier check), the residual radius is
\* negative too, so the later check alone would reject the same calls.
C14_FailsIffPitExceedsRadius ==
    VelocityTimeMode =>
        /\ (outcome.kind = "raise") <=> MaximumPitExceedsRadius
        /\ outcome.kind = "raise" =>
               outcome.error \in {ErrNegVT, ErrNegVTPitting}
        /\ Lt(CallDiameter, CallAveragePit) =>
               /\ Lt(ResidualRadius, Zero)
               /\ MaximumPitExceedsRadius

\* A call the earlier check rejects.
C14_Witness ==
    /\ VelocityTimeMode
    /\ Lt(CallDiameter, CallAveragePit)
    /\ MaximumPitExceedsRadius
    /\ outcome.kind = "raise"
    /\ outcome.error = ErrNegVT

\* A call only the later check rejects.
C14_WitnessLaterCheck ==
    /\ VelocityTimeMode
    /\ ~Lt(CallDiameter, CallAveragePit)
    /\ MaximumPitExceedsRadius
    /\ outcome.kind = "raise"
    /\ outcome.error = ErrNegVTPitting

----------------------------------------------------------------------------
\* The call returned an area.
ReturnsArea ==
    /\ MassLossMode \/ VelocityTimeMode
    /\ outcome.kind = "return"
    /\ outcome.value # <<>>

\* The outcome of the call in progress with other values for the pitting
\* factor, the mass loss, the velocity and the time.
CallWith(pitting_factor, mass_loss, velocity_of_corrosion, time_of_corrosion) ==
    calculate_minimum_area_after_corrosion(call.uncorroded_area, pitting_factor, mass_loss, velocity_of_corrosion, time_of_corrosion, call.design_code, activeCode)

\* An outcome that is an area is no larger than the area of the call.
NoLargerThanCall(o) ==
    (o.kind = "return" /\ o.value # <<>>) => Le(o.value[1], outcome.value[1])

\* The returned area does not increase when one of pitting_factor,
\* mass_loss, velocity_of_corrosion, time_of_corrosion is replaced by a
\* larger value and the others are kept.
AreaDoesNotIncrease ==
    /\ \A k \in PittingFactorArgs \ {<<>>} :
           Le(ArgPittingFactor, k[1]) =>
               NoLargerThanCall(CallWith(k[1], call.mass_loss,
                                         call.velocity_of_corrosion,
                                         call.time_of_corrosion))
    /\ \A m \in MassLossArgs \ {<<>>} :
           (call.mass_loss # <<>> /\ Le(call.mass_loss[1], m[1])) =>
               NoLargerThanCall(CallWith(ArgPittingFactor, m,
                                         call.velocity_of_corrosion,
                                         call.time_of_corrosion))
    /\ \A v \in VelocityArgs \ {<<>>} :
           (call.velocity_of_corrosion # <<>>
            /\ Le(call.velocity_of_corrosion[1], v[1])) =>
               NoLargerThanCall(CallWith(ArgPittingFactor, call.mass_loss, v,
                                         call.time_of_corrosion))
    /\ \A t \in TimeArgs \ {<<>>} :
           (call.time_of_corrosion # <<>>
            /\ Le(call.time_of_corrosion[1], t[1])) =>
               NoLargerThanCall(CallWith(ArgPittingFactor, call.mass_loss,
                                         call.velocity_of_corrosion, t))

\* 0 <= residual_radius <= uncorroded_diameter / 2
RadiusWithinBar ==
    /\ Le(Zero, ResidualRadius)
    /\ Le(ResidualRadius, Div(CallDiameter, Two))

\* C15 as stated: for every call that returns an area, in either mode, the
\* residual radius lies between 0 and the uncorroded radius, the returned
\* area is at most uncorroded_area, and the area does not increase with
\* pitting_factor, mass_loss, velocity_of_corrosion or time_of_corrosion.
C15_AreaNeverIncreases ==
    ReturnsArea =>
        /\ RadiusWithinBar
        /\ Le(outcome.value[1], call.uncorroded_area)
        /\ AreaDoesNotIncrease

\* C15, amended: for every call that returns an area, in either mode, the
\* residual radius lies between 0 and the uncorroded radius, the returned
\* area is at most uncorroded_area up to rounding (it may exceed it by the
\* rounding tolerance times uncorroded_area), and the area does not
\* increase with pitting_factor, mass_loss, velocity_of_corrosion or
\* time_of_corrosion.
C15_AreaNeverIncreasesUpToRounding ==
    ReturnsArea =>
        /\ RadiusWithinBar
        /\ Le(outcome.value[1],
              Add(call.uncorroded_area,
                  Mul(RoundingTolerance, call.uncorroded_area)))
        /\ AreaDoesNotIncrease

\* A call without corrosion (mass_loss 0) returns more than uncorroded_area,
\* within the rounding tolerance.
C15_Witness ==
    /\ ReturnsArea
    /\ MassLossMode
    /\ call.mass_loss[1] = Zero
    /\ Lt(call.uncorroded_area, outcome.value[1])
    /\ EqualUpToRounding(outcome.value[1], call.uncorroded_area)

\* A call with corrosion returns less than uncorroded_area.
C15_WitnessCorroded ==
    /\ ReturnsArea
    /\ VelocityTimeMode
    /\ Lt(Zero, ResidualRadius)
    /\ Lt(ResidualRadius, Div(CallDiameter, Two))
    /\ Lt(outcome.value[1], call.uncorroded_area)

====
